---- MODULE Spec2Model ----
(***************************************************************************)
(* A model of the units-of-measurement engine: the unit database           *)
(* (src/src/pyfu/unit_database.py), the quantity algebra it is built on    *)
(* (pyfu._all_cythonized, described in spec.md sections 3 and 4) and the   *)
(* formula parser's semantic actions.                                      *)
(*                                                                         *)
(* Numbers.  Python floats and ints that carry a payload or a scale factor *)
(* are modelled by exact rationals <<n, d>> in lowest terms with d > 0.    *)
(* Rounding of IEEE doubles is outside the model.                          *)
(***************************************************************************)
EXTENDS Integers, Sequences, FiniteSets, TLC

\* ------------------------------------------------------------------------
\* Bounds of the model
\* ------------------------------------------------------------------------
MaxUnits == 3       \* the database grows while fewer names are registered
MaxTerms == 1       \* terms of a formula passed to the database operations
MaxExp == 1         \* exponents written in an enumerated formula are at most MaxExp
MaxRatio == 2       \* numer and denom arguments of add_scaled_unit are 1..MaxRatio
MaxPrefixes == 2    \* length of an enumerated prefix list
MaxParseTerms == 3  \* terms of a formula given to the parser alone
MaxDenom == 0       \* exponent denominators written in a parsed formula are 0..MaxDenom
MaxValue == 3       \* numeric payloads of the enumerated quantities are 1..MaxValue

\* ------------------------------------------------------------------------
\* Exact rational arithmetic
\* ------------------------------------------------------------------------
Abs(x) == IF x < 0 THEN -x ELSE x

Sign(x) == IF x < 0 THEN -1 ELSE 1

RECURSIVE Gcd(_, _)
Gcd(a, b) == IF b = 0 THEN Abs(a) ELSE Gcd(b, a % Abs(b))

\* the fraction n/d in lowest terms, the sign carried by the numerator
Rat(n, d) ==
    LET g == Gcd(n, d)
    IN  <<Sign(d) * (n \div g), Abs(d) \div g>>

RInt(k) == <<k, 1>>

RMul(a, b) == Rat(a[1] * b[1], a[2] * b[2])

RDiv(a, b) == Rat(a[1] * b[2], a[2] * b[1])

RAdd(a, b) == Rat(a[1] * b[2] + b[1] * a[2], a[2] * b[2])

RSub(a, b) == Rat(a[1] * b[2] - b[1] * a[2], a[2] * b[2])

RNeg(a) == <<-a[1], a[2]>>

RECURSIVE IPow(_, _)
IPow(b, k) == IF k = 0 THEN 1 ELSE b * IPow(b, k - 1)

\* 10^k as a rational, k any integer
RPow10(k) == IF k >= 0 THEN <<IPow(10, k), 1>> ELSE <<1, IPow(10, -k)>>

\* a^k for an integer k; a # 0 when k < 0
RPowInt(a, k) ==
    IF k >= 0 THEN <<IPow(a[1], k), IPow(a[2], k)>>
    ELSE Rat(IPow(a[2], -k), IPow(a[1], -k))

\* the integer q-th root of n >= 0 when there is one, else -1
IRoot(n, q) ==
    IF \E r \in 0..n : IPow(r, q) = n
    THEN CHOOSE r \in 0..n : IPow(r, q) = n
    ELSE -1

\* "not representable": the result of a float operation that is irrational
Inexact == <<0, 0>>

\* the p-th power of the q-th roots rn and rd, when both roots exist
RootPow(neg, rn, rd, p) ==
    IF neg \/ rn = -1 \/ rd = -1 THEN Inexact
    ELSE <<IPow(rn, p), IPow(rd, p)>>

RPowRoot(b, p, q) == RootPow(b[1] < 0, IRoot(Abs(b[1]), q), IRoot(b[2], q), p)

\* a^(p/q) where that is rational (always, when q = 1)
RPowFrac(a, r) ==
    IF r[2] = 1 THEN RPowInt(a, r[1])
    ELSE RPowRoot(IF r[1] < 0 THEN RDiv(<<1, 1>>, a) ELSE a, Abs(r[1]), r[2])

\* ------------------------------------------------------------------------
\* UnitArray: base-unit name -> non-zero rational exponent (canonical form:
\* no zero entries, so that equality of arrays is equality of functions)
\* ------------------------------------------------------------------------
EmptyUnitArray == [n \in {} |-> <<0, 1>>]

\* UnitArray(name): the array {name: 1}
UnitArray(name) == [n \in {name} |-> <<1, 1>>]

UAExp(a, n) == IF n \in DOMAIN a THEN a[n] ELSE <<0, 1>>

UAMul(a, b) ==
    LET e(n) == RAdd(UAExp(a, n), UAExp(b, n))
        keep == {n \in (DOMAIN a) \cup (DOMAIN b) : e(n)[1] # 0}
    IN  [n \in keep |-> e(n)]

UAPow(a, r) ==
    IF r[1] = 0 THEN EmptyUnitArray
    ELSE [n \in DOMAIN a |-> RMul(a[n], r)]

UAInverse(a) == [n \in DOMAIN a |-> RNeg(a[n])]

\* ------------------------------------------------------------------------
\* Scale ("conversion"): factor * numer/denom * 10^exp10
\* ------------------------------------------------------------------------
Conversion(factor, numer, denom, exp10) ==
    [factor |-> factor, ratio |-> [numer |-> numer, denom |-> denom], exp10 |-> exp10]

ScaleOne == Conversion(<<1, 1>>, 1, 1, 0)

ScaleMul(s, t) ==
    LET r == Rat(s.ratio.numer * t.ratio.numer, s.ratio.denom * t.ratio.denom)
    IN  Conversion(RMul(s.factor, t.factor), r[1], r[2], s.exp10 + t.exp10)

ScaleInverse(s) ==
    LET r == Rat(s.ratio.denom, s.ratio.numer)
    IN  Conversion(RDiv(<<1, 1>>, s.factor), r[1], r[2], -s.exp10)

\* value(): the scale as one number
ScaleValue(s) ==
    RMul(RMul(s.factor, Rat(s.ratio.numer, s.ratio.denom)), RPow10(s.exp10))

\* pow(s, p/q): exact when the scale is rational-only and the roots are
\* integers, otherwise everything collapses into the float factor.
\* b is s, inverted when the exponent is negative; rn and rd are the roots.
ScalePowExact(s, r, b, rn, rd) ==
    IF /\ s.factor = <<1, 1>>
       /\ rn # -1 /\ rd # -1
       /\ (b.ratio.numer >= 0 \/ r[2] % 2 = 1)
       /\ (b.exp10 * Abs(r[1])) % r[2] = 0
    THEN Conversion(<<1, 1>>, Sign(b.ratio.numer) * IPow(rn, Abs(r[1])),
                    IPow(rd, Abs(r[1])), (b.exp10 * Abs(r[1])) \div r[2])
    ELSE Conversion(RPowFrac(ScaleValue(s), r), 1, 1, 0)

ScalePowOf(s, r, b) ==
    ScalePowExact(s, r, b, IRoot(Abs(b.ratio.numer), r[2]), IRoot(b.ratio.denom, r[2]))

ScalePow(s, r) == ScalePowOf(s, r, IF r[1] < 0 THEN ScaleInverse(s) ELSE s)

\* ------------------------------------------------------------------------
\* WithUnit: value, scale, base_units, display_units
\* ------------------------------------------------------------------------
raw_WithUnit(value, conv, base_units, display_units) ==
    [cls |-> "WithUnit", value |-> value, conv |-> conv,
     base_units |-> base_units, display_units |-> display_units]

\* WithUnit(x): a dimensionless quantity from a number
WithUnit(x) == raw_WithUnit(x, ScaleOne, EmptyUnitArray, EmptyUnitArray)

\* a Python bool
Bool(b) == [cls |-> "bool", value |-> b]

\* a plain Python number (not a WithUnit)
Number(x) == [cls |-> "float", value |-> x]

IsWithUnit(v) == v.cls = "WithUnit"

\* operands of a binary operator: a raw number acts as a dimensionless quantity
AsWithUnit(v) == IF IsWithUnit(v) THEN v ELSE WithUnit(v.value)

WUMul(a, b) ==
    raw_WithUnit(RMul(a.value, b.value), ScaleMul(a.conv, b.conv),
                 UAMul(a.base_units, b.base_units),
                 UAMul(a.display_units, b.display_units))

WUInverse(a) ==
    raw_WithUnit(RDiv(<<1, 1>>, a.value), ScaleInverse(a.conv),
                 UAInverse(a.base_units), UAInverse(a.display_units))

WUDiv(a, b) == WUMul(a, WUInverse(b))

WUPow(a, r) ==
    raw_WithUnit(RPowFrac(a.value, r), ScalePow(a.conv, r),
                 UAPow(a.base_units, r), UAPow(a.display_units, r))

\* the factor by which a value in scale s is multiplied to express it in scale t
RatioTo(s, t) ==
    RMul(RDiv(RMul(s.factor, Rat(s.ratio.numer, s.ratio.denom)),
              RMul(t.factor, Rat(t.ratio.numer, t.ratio.denom))),
         RPow10(s.exp10 - t.exp10))

UnitMismatch == "UnitMismatchError"

\* a + b (sub = FALSE) and a - b (sub = TRUE) of two quantities: [err, ret]
AddSub(a, b, bv, sub) ==
    IF a.base_units # b.base_units
    THEN [err |-> UnitMismatch, ret |-> WithUnit(<<0, 1>>)]
    ELSE [err |-> "ok",
          ret |-> raw_WithUnit(IF sub THEN RSub(a.value, bv) ELSE RAdd(a.value, bv),
                               a.conv, a.base_units, a.display_units)]

\* (a variant that adds the payloads without bringing b to a's scale)
Scaled_Unconverted(a, b, sub) == AddSub(a, b, b.value, sub)

\* b is brought to the scale of the left operand
Scaled(a, b, sub) == AddSub(a, b, RMul(b.value, RatioTo(b.conv, a.conv)), sub)

WUAddSub(x, y, sub) == Scaled(AsWithUnit(x), AsWithUnit(y), sub)

\* magnitude in base units, as mantissa * 10^e with a mantissa free of factors
\* of ten (a canonical form that keeps the integers small)
RECURSIVE StripTens(_, _)
StripTens(n, e) ==
    IF n # 0 /\ n % 10 = 0 THEN StripTens(n \div 10, e + 1) ELSE <<n, e>>

Mantissa(m, sn, sd, exp10) ==
    IF m[1] = 0 THEN [mant |-> <<0, 1>>, e |-> 0]
    ELSE [mant |-> <<sn[1], sd[1]>>, e |-> exp10 + sn[2] - sd[2]]

Normal(m, exp10) == Mantissa(m, StripTens(m[1], 0), StripTens(m[2], 0), exp10)

Magnitude(a) ==
    Normal(RMul(RMul(a.value, a.conv.factor),
                Rat(a.conv.ratio.numer, a.conv.ratio.denom)),
           a.conv.exp10)

\* (a variant that compares the magnitudes and forgets the units)
SameQuantity_AnyUnits(a, b) == Magnitude(a) = Magnitude(b)

\* a == b
SameQuantity(a, b) == a.base_units = b.base_units /\ Magnitude(a) = Magnitude(b)

WUEq(x, y) == SameQuantity(AsWithUnit(x), AsWithUnit(y))

\* hash(a).  A hash is modelled by what it is computed from (two hashes are
\* equal when computed from equal things): the magnitude in base units as a
\* canonical number, and the base units.
\* (a variant that hashes the payload and the display units)
HashOf_Display(a) ==
    [cls |-> "int", magnitude |-> Normal(a.value, 0), base_units |-> a.display_units]

HashOf(a) ==
    [cls |-> "int", magnitude |-> Magnitude(a), base_units |-> a.base_units]

\* hash of a quantity or of a raw number
PyHash(x) == HashOf(AsWithUnit(x))

\* ------------------------------------------------------------------------
\* Parsed formulas.  unit_grammar turns 'kg*m/s^2' into the items that follow
\* '*' (or come first), posexp, and those that follow '/', negexp.  An item
\* has a name, a flag neg for a '-' in its exponent, and num and denom, which
\* are Absent when the text has none.
\* ------------------------------------------------------------------------
Absent == -1

Item(op, name, neg, num, denom) ==
    [op |-> op, name |-> name, neg |-> neg, num |-> num, denom |-> denom]

\* the formula that is just a unit name ('' is the empty formula)
NameFormula(name) ==
    IF name = "" THEN <<>> ELSE <<Item("*", name, FALSE, Absent, Absent)>>

posexp(formula) == SelectSeq(formula, LAMBDA it : it.op = "*")

negexp(formula) == SelectSeq(formula, LAMBDA it : it.op = "/")

\* Python's `x or 1`: an absent group and the number 0 are both falsy
Or1(x) == IF x = Absent \/ x = 0 THEN 1 ELSE x

\* ------------------------------------------------------------------------
\* UnitDatabase.  Every operation maps the dictionary known_units (db) to
\* [db, err, ret]: the dictionary afterwards, "ok" or the exception raised,
\* and the value returned.
\* ------------------------------------------------------------------------
NoneVal == [cls |-> "NoneType"]

UnknownUnit == "KeyError"

DuplicateUnit == "RuntimeError"

Ok(db, ret) == [db |-> db, err |-> "ok", ret |-> ret]

Raise(db, e) == [db |-> db, err |-> e, ret |-> NoneVal]

\* (a variant that stores the value whether or not the name is taken)
add_unit_Overwrite(db, unit_name, unit_base_value) ==
    IF ~IsWithUnit(unit_base_value) THEN Raise(db, "TypeError")
    ELSE Ok([n \in DOMAIN db \cup {unit_name} |->
                IF n = unit_name THEN unit_base_value ELSE db[n]], NoneVal)

add_unit(db, unit_name, unit_base_value) ==
    IF ~IsWithUnit(unit_base_value) THEN Raise(db, "TypeError")
    ELSE IF unit_name \in DOMAIN db THEN Raise(db, DuplicateUnit)
    ELSE Ok(db @@ (unit_name :> unit_base_value), NoneVal)

\* (a variant whose unit has no base units)
add_root_unit_Dimensionless(db, unit_name) ==
    add_unit(db, unit_name,
             raw_WithUnit(<<1, 1>>, ScaleOne, EmptyUnitArray, UnitArray(unit_name)))

add_root_unit(db, unit_name) ==
    LET ua   == UnitArray(unit_name)
        unit == raw_WithUnit(<<1, 1>>, ScaleOne, ua, ua)
    IN  add_unit(db, unit_name, unit)

\* return self.known_units[unit_name]
Lookup(db, unit_name) ==
    IF unit_name \in DOMAIN db THEN Ok(db, db[unit_name])
    ELSE Raise(db, UnknownUnit)

\* (a variant that creates unknown units whatever the option says)
get_unit_AlwaysCreate(db, auto, unit_name) ==
    IF unit_name \notin DOMAIN db
    THEN Lookup(add_root_unit(db, unit_name).db, unit_name)
    ELSE Lookup(db, unit_name)

get_unit(db, auto, unit_name) ==
    IF auto /\ unit_name \notin DOMAIN db
    THEN Lookup(add_root_unit(db, unit_name).db, unit_name)
    ELSE Lookup(db, unit_name)

\* r, when the call that gave r raised; otherwise what F makes of r
Then(r, F(_)) == IF r.err # "ok" THEN r ELSE F(r)

\* sign * float(numer) / denom
Exponent(item, neg) ==
    Rat(neg * (IF item.neg THEN -1 ELSE 1) * Or1(item.num), Or1(item.denom))

parse_unit_item(db, auto, item, neg) ==
    Then(get_unit(db, auto, item.name),
         LAMBDA g : Ok(g.db, WUPow(g.ret, Exponent(item, neg))))

\* for item in items: result *= self._parse_unit_item(item, neg)
RECURSIVE ParseItems(_, _, _, _, _)
ParseItems(db, auto, items, neg, result) ==
    IF items = <<>> THEN Ok(db, result)
    ELSE Then(parse_unit_item(db, auto, Head(items), neg),
              LAMBDA r : ParseItems(r.db, auto, Tail(items), neg, WUMul(result, r.ret)))

parse_unit_formula(db, auto, formula) ==
    IF formula = <<>> THEN get_unit(db, auto, "")
    ELSE Then(ParseItems(db, auto, posexp(formula), 1, WithUnit(<<1, 1>>)),
              LAMBDA p : ParseItems(p.db, auto, negexp(formula), -1, p.ret))

\* (a variant that registers a copy displayed under the alternate name)
add_alternate_unit_name_Renamed(db, auto, alternate_name, unit_name) ==
    Then(get_unit(db, auto, unit_name),
         LAMBDA g : add_unit(g.db, alternate_name,
                             raw_WithUnit(g.ret.value, g.ret.conv, g.ret.base_units,
                                          UnitArray(alternate_name))))

add_alternate_unit_name(db, auto, alternate_name, unit_name) ==
    Then(get_unit(db, auto, unit_name),
         LAMBDA g : add_unit(g.db, alternate_name, g.ret))

\* (a variant that drops the parent's power of ten)
ScaledUnit_OwnExp10(parent, unit_name, factor, numer, denom, exp10) ==
    raw_WithUnit(
        <<1, 1>>,
        Conversion(RMul(RMul(factor, parent.conv.factor), parent.value),
                   numer * parent.conv.ratio.numer,
                   denom * parent.conv.ratio.denom,
                   exp10),
        parent.base_units,
        UnitArray(unit_name))

\* the unit add_scaled_unit builds from the parsed formula
ScaledUnit(parent, unit_name, factor, numer, denom, exp10) ==
    raw_WithUnit(
        <<1, 1>>,
        Conversion(RMul(RMul(factor, parent.conv.factor), parent.value),
                   numer * parent.conv.ratio.numer,
                   denom * parent.conv.ratio.denom,
                   exp10 + parent.conv.exp10),
        parent.base_units,
        UnitArray(unit_name))

add_scaled_unit(db, auto, unit_name, formula, factor, numer, denom, exp10) ==
    Then(parse_unit_formula(db, auto, formula),
         LAMBDA p : add_unit(p.db, unit_name,
                             ScaledUnit(p.ret, unit_name, factor, numer, denom, exp10)))

\* (a variant without the skip of the k prefix of the gram)
BasePrefix_NoSkip(db, auto, symbol, name, pre) ==
    Then(add_scaled_unit(db, auto, pre.symbol \o symbol, NameFormula(symbol),
                         <<1, 1>>, 1, 1, pre.exp10),
         LAMBDA r : add_alternate_unit_name(r.db, auto, pre.name \o name,
                                            pre.symbol \o symbol))

\* one round of the loop over the prefixes of add_base_unit_data
BasePrefix(db, auto, symbol, name, pre) ==
    IF symbol = "g" /\ pre.symbol = "k" THEN Ok(db, NoneVal)
    ELSE Then(add_scaled_unit(db, auto, pre.symbol \o symbol, NameFormula(symbol),
                              <<1, 1>>, 1, 1, pre.exp10),
              LAMBDA r : add_alternate_unit_name(r.db, auto, pre.name \o name,
                                                 pre.symbol \o symbol))

RECURSIVE BasePrefixes(_, _, _, _, _)
BasePrefixes(db, auto, symbol, name, prefixes) ==
    IF prefixes = <<>> THEN Ok(db, NoneVal)
    ELSE Then(BasePrefix(db, auto, symbol, name, Head(prefixes)),
              LAMBDA r : BasePrefixes(r.db, auto, symbol, name, Tail(prefixes)))

\* (a variant that registers the gram as a kilogram)
Gram_Unshifted(db, auto) ==
    Then(add_scaled_unit(db, auto, "g", NameFormula("kg"), <<1, 1>>, 1, 1, 0),
         LAMBDA r : add_alternate_unit_name(r.db, auto, "gram", "g"))

\* if symbol == 'kg': register g and gram
Gram(db, auto) ==
    Then(add_scaled_unit(db, auto, "g", NameFormula("kg"), <<1, 1>>, 1, 1, -3),
         LAMBDA r : add_alternate_unit_name(r.db, auto, "gram", "g"))

add_base_unit_data(db, auto, data, prefixes) ==
    Then(add_root_unit(db, data.symbol), LAMBDA r1 :
    Then(add_alternate_unit_name(r1.db, auto, data.name, data.symbol), LAMBDA r2 :
    Then(IF data.symbol = "kg" THEN Gram(r2.db, auto) ELSE r2, LAMBDA r3 :
         IF ~data.use_prefixes THEN Ok(r3.db, NoneVal)
         ELSE BasePrefixes(r3.db, auto,
                           IF data.symbol = "kg" THEN "g" ELSE data.symbol,
                           IF data.symbol = "kg" THEN "gram" ELSE data.name,
                           prefixes))))

\* for key in [data.symbol, data.name]: add_scaled_unit(key, ...)
RECURSIVE DerivedKeys(_, _, _, _)
DerivedKeys(db, auto, data, keys) ==
    IF keys = <<>> THEN Ok(db, NoneVal)
    ELSE Then(add_scaled_unit(db, auto, Head(keys), data.formula, data.value,
                              data.numerator, data.denominator, data.exp10),
              LAMBDA r : DerivedKeys(r.db, auto, data, Tail(keys)))

\* (a variant that forgets the prefix's power of ten)
DerivedPrefix_Unshifted(db, auto, data, pre) ==
    Then(add_scaled_unit(db, auto, pre.symbol \o data.symbol, data.formula,
                         data.value, data.numerator, data.denominator, data.exp10),
         LAMBDA r : add_alternate_unit_name(r.db, auto, pre.name \o data.name,
                                            pre.symbol \o data.symbol))

\* one round of the loop over the prefixes of add_derived_unit_data
DerivedPrefix(db, auto, data, pre) ==
    Then(add_scaled_unit(db, auto, pre.symbol \o data.symbol, data.formula,
                         data.value, data.numerator, data.denominator,
                         data.exp10 + pre.exp10),
         LAMBDA r : add_alternate_unit_name(r.db, auto, pre.name \o data.name,
                                            pre.symbol \o data.symbol))

RECURSIVE DerivedPrefixes(_, _, _, _)
DerivedPrefixes(db, auto, data, prefixes) ==
    IF prefixes = <<>> THEN Ok(db, NoneVal)
    ELSE Then(DerivedPrefix(db, auto, data, Head(prefixes)),
              LAMBDA r : DerivedPrefixes(r.db, auto, data, Tail(prefixes)))

add_derived_unit_data(db, auto, data, prefixes) ==
    Then(DerivedKeys(db, auto, data, <<data.symbol, data.name>>),
         LAMBDA r : IF ~data.use_prefixes THEN Ok(r.db, NoneVal)
                    ELSE DerivedPrefixes(r.db, auto, data, prefixes))

\* the module-level population of a database from the static catalog: every
\* base unit, then every derived unit, with the catalog's prefixes
RECURSIVE LoadBase(_, _, _, _)
LoadBase(db, auto, catalog, prefixes) ==
    IF catalog = <<>> THEN Ok(db, NoneVal)
    ELSE Then(add_base_unit_data(db, auto, Head(catalog), prefixes),
              LAMBDA r : LoadBase(r.db, auto, Tail(catalog), prefixes))

RECURSIVE LoadDerived(_, _, _, _)
LoadDerived(db, auto, catalog, prefixes) ==
    IF catalog = <<>> THEN Ok(db, NoneVal)
    ELSE Then(add_derived_unit_data(db, auto, Head(catalog), prefixes),
              LAMBDA r : LoadDerived(r.db, auto, Tail(catalog), prefixes))

load_catalog(db, auto, bases, deriveds, prefixes) ==
    Then(LoadBase(db, auto, bases, prefixes),
         LAMBDA r : LoadDerived(r.db, auto, deriveds, prefixes))

\* Value(x, unit): the number x in the given unit
Value(x, unit) == WUMul(WithUnit(<<x, 1>>), unit)

\* ------------------------------------------------------------------------
\* State
\* ------------------------------------------------------------------------
VARIABLES
    known_units,        \* UnitDatabase.known_units: name -> WithUnit
    auto_create_units,  \* UnitDatabase.auto_create_units
    last,               \* the call in progress: [op, args, err, ret]
    before,             \* known_units when that call started
    threads             \* the position of each thread inside its lookup

vars == <<known_units, auto_create_units, last, before, threads>>

EmptyDb == [n \in {} |-> NoneVal]

\* between two calls
Idle == [op |-> "idle", args |-> NoneVal, err |-> "ok", ret |-> NoneVal]

Call(op, args, r) == [op |-> op, args |-> args, err |-> r.err, ret |-> r.ret]

\* the threads that look units up concurrently; outside such lookups every
\* thread is at rest
Threads == {"T1", "T2"}

AtRest == [pc |-> "rest"]

NoThreads == [t \in Threads |-> AtRest]

\* no thread is inside a lookup
Quiescent == \A t \in Threads : threads[t].pc \in {"rest", "done"}

\* ------------------------------------------------------------------------
\* Inputs
\* ------------------------------------------------------------------------
UnitNames == {"kg", "g"}

milli == [symbol |-> "m", name |-> "milli", exp10 |-> -3]

kilo == [symbol |-> "k", name |-> "kilo", exp10 |-> 3]

mega == [symbol |-> "M", name |-> "mega", exp10 |-> 6]

\* the prefixes of the populated database (ratios between its units stay
\* within 10^6, which the model's integers hold)
PrefixCatalog == <<kilo, mega>>

\* the prefixes of the enumerated calls
PrefixData == {milli, kilo, mega}

RECURSIVE SeqsUpTo(_, _)
SeqsUpTo(S, n) ==
    IF n = 0 THEN {<<>>}
    ELSE LET shorter == SeqsUpTo(S, n - 1)
         IN  shorter \cup {Append(q, x) : q \in shorter, x \in S}

PrefixLists == SeqsUpTo(PrefixData, MaxPrefixes)

BaseUnitCatalog ==
    << [symbol |-> "m", name |-> "meter", use_prefixes |-> TRUE],
       [symbol |-> "kg", name |-> "kilogram", use_prefixes |-> TRUE],
       [symbol |-> "s", name |-> "second", use_prefixes |-> TRUE],
       [symbol |-> "rad", name |-> "radian", use_prefixes |-> FALSE],
       [symbol |-> "dB", name |-> "decibel", use_prefixes |-> FALSE],
       [symbol |-> "dBm", name |-> "decibel-milliwatt", use_prefixes |-> FALSE],
       [symbol |-> "mol", name |-> "mole", use_prefixes |-> TRUE] >>

BaseUnitData == {BaseUnitCatalog[i] : i \in DOMAIN BaseUnitCatalog}

\* (the factor of cyc, 2 pi, is a float: the model takes the rational 44/7)
DerivedUnitCatalog ==
    << [symbol |-> "Hz", name |-> "hertz",
        formula |-> <<Item("*", "s", TRUE, 1, Absent)>>,
        value |-> <<1, 1>>, numerator |-> 1, denominator |-> 1, exp10 |-> 0,
        use_prefixes |-> TRUE],
       [symbol |-> "min", name |-> "minute", formula |-> NameFormula("s"),
        value |-> <<1, 1>>, numerator |-> 60, denominator |-> 1, exp10 |-> 0,
        use_prefixes |-> FALSE],
       [symbol |-> "cyc", name |-> "cycle", formula |-> NameFormula("rad"),
        value |-> <<44, 7>>, numerator |-> 1, denominator |-> 1, exp10 |-> 0,
        use_prefixes |-> FALSE],
       [symbol |-> "sr", name |-> "steradian",
        formula |-> <<Item("*", "rad", FALSE, 2, Absent)>>,
        value |-> <<1, 1>>, numerator |-> 1, denominator |-> 1, exp10 |-> 0,
        use_prefixes |-> FALSE],
       [symbol |-> "W", name |-> "watt",
        formula |-> <<Item("*", "kg", FALSE, Absent, Absent),
                      Item("*", "m", FALSE, 2, Absent),
                      Item("/", "s", FALSE, 3, Absent)>>,
        value |-> <<1, 1>>, numerator |-> 1, denominator |-> 1, exp10 |-> 0,
        use_prefixes |-> FALSE] >>

DerivedUnitData == {DerivedUnitCatalog[i] : i \in DOMAIN DerivedUnitCatalog}

\* formulas of at most n terms over the given names and exponents <<neg, num, denom>>
RECURSIVE FormulasUpTo(_, _, _)
FormulasUpTo(n, names, exps) ==
    IF n = 0 THEN {<<>>}
    ELSE LET shorter == FormulasUpTo(n - 1, names, exps)
             ops     == IF n = 1 THEN {"*"} ELSE {"*", "/"}
         IN  shorter \cup
             {Append(f, Item(op, nm, e[1], e[2], e[3])) :
                 f \in {g \in shorter : Len(g) = n - 1},
                 op \in ops, nm \in names, e \in exps}

\* exponents of the formulas passed to the database operations: none, ^n, ^-n
Exponents ==
    {<<FALSE, Absent, Absent>>}
        \cup {<<ng, n, Absent>> : ng \in BOOLEAN, n \in 1..MaxExp}

Formulas == FormulasUpTo(MaxTerms, UnitNames, Exponents)

\* exponents of the formulas given to the parser alone: none, ^n from 0 on,
\* ^-n, and the fractions ^n/d with denominators from 0 on
ParseExponents ==
    {<<FALSE, Absent, Absent>>}
        \cup {<<FALSE, n, Absent>> : n \in 0..MaxExp}
        \cup {<<TRUE, n, Absent>> : n \in 1..MaxExp}
        \cup {<<FALSE, n, d>> : n \in 1..MaxExp, d \in 0..MaxDenom}

ParseNames == {"g", "cyc"}

ParseFormulas == FormulasUpTo(MaxParseTerms, ParseNames, ParseExponents)

Factors == {<<1, 1>>, <<2, 1>>}

Ratios == 1..MaxRatio

Exp10s == {0, -3}

MayGrow == Cardinality(DOMAIN known_units) < MaxUnits

\* ------------------------------------------------------------------------
\* Initial state: a database as constructed, with either setting of the option
\* ------------------------------------------------------------------------
Init ==
    /\ known_units = EmptyDb
    /\ auto_create_units \in BOOLEAN
    /\ last = Idle
    /\ before = EmptyDb
    /\ threads = NoThreads

\* ------------------------------------------------------------------------
\* Operations of the database
\* ------------------------------------------------------------------------
Done(op, args, r) ==
    /\ known_units' = r.db
    /\ last' = Call(op, args, r)
    /\ before' = known_units
    /\ UNCHANGED <<auto_create_units, threads>>

\* the call has returned and the caller is about to make the next one
Return ==
    /\ last # Idle
    /\ Quiescent
    /\ last' = Idle
    /\ before' = known_units
    /\ threads' = NoThreads
    /\ UNCHANGED <<known_units, auto_create_units>>

GetUnit ==
    /\ last = Idle
    /\ \E n \in UnitNames \cup ParseNames \cup {""} :
        /\ MayGrow \/ n \in DOMAIN known_units \/ ~auto_create_units
        /\ Done("get_unit", [unit_name |-> n],
                get_unit(known_units, auto_create_units, n))

ParseUnitFormula ==
    /\ last = Idle
    /\ MayGrow
    /\ \E f \in Formulas :
        Done("parse_unit_formula", [formula |-> f],
                parse_unit_formula(known_units, auto_create_units, f))

\* the values a caller passes to add_unit: a multiple of a unit it looked up,
\* a dimensionless number, or (wrongly) a plain number
UnitValues ==
    {Number(<<2, 1>>), WithUnit(<<2, 1>>)}
        \cup {Value(2, known_units[n]) : n \in DOMAIN known_units}

AddUnit ==
    /\ last = Idle
    /\ MayGrow
    /\ \E n \in UnitNames, v \in UnitValues :
        Done("add_unit", [unit_name |-> n, unit_base_value |-> v],
                add_unit(known_units, n, v))

AddRootUnit ==
    /\ last = Idle
    /\ MayGrow
    /\ \E n \in UnitNames :
        Done("add_root_unit", [unit_name |-> n], add_root_unit(known_units, n))

AddAlternateUnitName ==
    /\ last = Idle
    /\ MayGrow
    /\ \E a \in UnitNames, n \in UnitNames :
        Done("add_alternate_unit_name", [alternate_name |-> a, unit_name |-> n],
                add_alternate_unit_name(known_units, auto_create_units, a, n))

AddScaledUnit ==
    /\ last = Idle
    /\ MayGrow
    /\ \E n \in UnitNames, f \in Formulas, fa \in Factors,
       nu \in Ratios, de \in Ratios, e \in Exp10s :
        Done("add_scaled_unit",
                [unit_name |-> n, formula |-> f, factor |-> fa,
                 numer |-> nu, denom |-> de, exp10 |-> e],
                add_scaled_unit(known_units, auto_create_units, n, f, fa, nu, de, e))

AddBaseUnitData ==
    /\ last = Idle
    /\ MayGrow
    /\ \E d \in BaseUnitData, ps \in PrefixLists :
        Done("add_base_unit_data", [data |-> d, prefixes |-> ps],
                add_base_unit_data(known_units, auto_create_units, d, ps))

AddDerivedUnitData ==
    /\ last = Idle
    /\ MayGrow
    /\ \E d \in DerivedUnitData, ps \in PrefixLists :
        Done("add_derived_unit_data", [data |-> d, prefixes |-> ps],
                add_derived_unit_data(known_units, auto_create_units, d, ps))

Next ==
    \/ Return
    \/ GetUnit
    \/ ParseUnitFormula
    \/ AddUnit
    \/ AddRootUnit
    \/ AddAlternateUnitName
    \/ AddScaledUnit
    \/ AddBaseUnitData
    \/ AddDerivedUnitData

Spec == Init /\ [][Next]_vars

\* ------------------------------------------------------------------------
\* The parser on its own: a database that is empty, holds a few root units or
\* was populated from the catalog, and formulas of several terms
\* ------------------------------------------------------------------------
LoadCatalog ==
    /\ last = Idle
    /\ known_units = EmptyDb
    /\ Done("load_catalog", NoneVal,
            load_catalog(known_units, auto_create_units, BaseUnitCatalog,
                         DerivedUnitCatalog, PrefixCatalog))

ParseFormula ==
    /\ last = Idle
    /\ \E f \in ParseFormulas :
        Done("parse_unit_formula", [formula |-> f],
             parse_unit_formula(known_units, auto_create_units, f))

NextParse ==
    \/ Return
    \/ LoadCatalog
    \/ AddRootUnit
    \/ GetUnit
    \/ ParseFormula

SpecParse == Init /\ [][NextParse]_vars

\* ------------------------------------------------------------------------
\* Arithmetic on the quantities of a populated database
\* ------------------------------------------------------------------------
\* the numeric payloads: the small ones, and the thousand that separates
\* neighbouring prefixes
Payloads == 1..MaxValue \cup {1000}

Quantities ==
    {Value(x, known_units[n]) : x \in Payloads, n \in DOMAIN known_units}
        \cup {WithUnit(<<x, 1>>) : x \in Payloads}

Operands == Quantities \cup {Number(<<x, 1>>) : x \in Payloads}

Computed(op, args, r) ==
    /\ last' = [op |-> op, args |-> args, err |-> r.err, ret |-> r.ret]
    /\ before' = known_units
    /\ UNCHANGED <<known_units, auto_create_units, threads>>

Add ==
    /\ last = Idle
    /\ \E a \in Quantities, b \in Operands :
        Computed("add", [a |-> a, b |-> b], WUAddSub(a, b, FALSE))

Sub ==
    /\ last = Idle
    /\ \E a \in Quantities, b \in Operands :
        Computed("sub", [a |-> a, b |-> b], WUAddSub(a, b, TRUE))

\* a == b
Eq ==
    /\ last = Idle
    /\ \E a \in Quantities, b \in Operands :
        Computed("eq", [a |-> a, b |-> b], [err |-> "ok", ret |-> Bool(WUEq(a, b))])

\* hash(a)
Hash ==
    /\ last = Idle
    /\ \E a \in Operands :
        Computed("hash", [a |-> a], [err |-> "ok", ret |-> PyHash(a)])

\* ------------------------------------------------------------------------
\* Dimension classes (tunits/api/dimension.py) over the default database
\* ------------------------------------------------------------------------
\* the dimension classes whose units the catalog above defines
Dimensions ==
    {"Acceleration", "Angle", "AngularFrequency", "Area", "Density",
     "Frequency", "Length", "LogPower", "Mass", "Power", "Quantity", "Speed",
     "SurfaceDensity", "Time"}

\* D.valid_base_units(), read from the known_units of the default database
valid_base_units(D, db) ==
    CASE D = "Acceleration" -> <<WUDiv(db["m"], WUPow(db["s"], <<2, 1>>))>>
      [] D = "Angle" -> <<db["rad"], db["sr"]>>
      [] D = "AngularFrequency" ->
             <<WUMul(WUMul(db["rad"], db["Hz"]), WithUnit(<<2, 1>>))>>
      [] D = "Area" -> <<WUPow(db["m"], <<2, 1>>)>>
      [] D = "Density" -> <<WUDiv(db["kg"], WUPow(db["m"], <<3, 1>>))>>
      [] D = "Frequency" -> <<db["Hz"]>>
      [] D = "Length" -> <<db["m"]>>
      [] D = "LogPower" -> <<db["dBm"], db["dB"]>>
      [] D = "Mass" -> <<db["kg"]>>
      [] D = "Power" -> <<db["watt"]>>
      [] D = "Quantity" -> <<db["mole"]>>
      [] D = "Speed" -> <<WUDiv(db["m"], db["s"])>>
      [] D = "SurfaceDensity" -> <<WUDiv(db["kg"], WUPow(db["m"], <<2, 1>>))>>
      [] D = "Time" -> <<db["s"]>>

\* (a variant that looks at the units a quantity is displayed in)
is_valid_Display(D, v, db) ==
    \E i \in DOMAIN valid_base_units(D, db) :
        v.display_units = valid_base_units(D, db)[i].base_units

\* D.is_valid(v)
is_valid(D, v, db) ==
    \E i \in DOMAIN valid_base_units(D, db) :
        v.base_units = valid_base_units(D, db)[i].base_units

\* D(v): a quantity of the dimension class built from the quantity v
ValueWithDimension(D, v) ==
    raw_WithUnit(v.value, v.conv, v.base_units, v.display_units)

\* u * k for a plain number k
Times(u, k) == WUMul(u, AsWithUnit(Number(k)))

\* the steps of test_arithmetic_ops_preserve_type on u = D(D.valid_base_units()[0]),
\* a = u * 2 and b = u * 3: the result c and the quantity it is compared with
ArithmeticOps == {"a + b", "a - b", "a * 7", "a / 11"}

arithmetic_op(u, op) ==
    CASE op = "a + b" -> WUAddSub(Times(u, <<2, 1>>), Times(u, <<3, 1>>), FALSE)
      [] op = "a - b" -> WUAddSub(Times(u, <<2, 1>>), Times(u, <<3, 1>>), TRUE)
      [] op = "a * 7" -> [err |-> "ok", ret |-> Times(Times(u, <<2, 1>>), <<7, 1>>)]
      [] op = "a / 11" ->
             [err |-> "ok",
              ret |-> WUDiv(Times(u, <<2, 1>>), AsWithUnit(Number(<<11, 1>>)))]

arithmetic_expected(u, op) ==
    CASE op = "a + b" -> Times(u, <<5, 1>>)
      [] op = "a - b" -> Times(u, <<-1, 1>>)
      [] op = "a * 7" -> Times(u, <<14, 1>>)
      [] op = "a / 11" -> WUDiv(Times(u, <<2, 1>>), AsWithUnit(Number(<<11, 1>>)))

DimensionUnit(D, db) == ValueWithDimension(D, valid_base_units(D, db)[1])

DimensionArithmetic ==
    /\ last = Idle
    /\ known_units # EmptyDb
    /\ \E D \in Dimensions, op \in ArithmeticOps :
        Computed("dimension", [dimension |-> D, op |-> op],
                 arithmetic_op(DimensionUnit(D, known_units), op))

NextValue ==
    \/ Return
    \/ LoadCatalog
    \/ Add
    \/ Sub
    \/ Eq
    \/ Hash
    \/ DimensionArithmetic

SpecValue == Init /\ [][NextValue]_vars

\* ------------------------------------------------------------------------
\* Two threads that look units up at the same time, after the database has
\* been populated.  A thread executes get_unit statement by statement; the
\* statements of the two threads interleave, each access to the dictionary
\* being atomic.
\* ------------------------------------------------------------------------
GetUnitCall(n) == [op |-> "get_unit", unit_name |-> n, formula |-> <<>>]

ParseCall(f) == [op |-> "parse_unit_formula", unit_name |-> "", formula |-> f]

Lookups ==
    {GetUnitCall(n) : n \in UnitNames} \cup {ParseCall(f) : f \in Formulas}

\* the get_unit calls a lookup makes, in order: the name and what becomes of
\* the unit found (plain: returned as it is; otherwise raised to exp and
\* multiplied into the result)
Term(item, neg) == [name |-> item.name, plain |-> FALSE, exp |-> Exponent(item, neg)]

PlainTerm(n) == [name |-> n, plain |-> TRUE, exp |-> <<1, 1>>]

Terms(items, neg) == [i \in DOMAIN items |-> Term(items[i], neg)]

Work(call) ==
    IF call.op = "get_unit" THEN <<PlainTerm(call.unit_name)>>
    ELSE IF call.formula = <<>> THEN <<PlainTerm("")>>
    ELSE Terms(posexp(call.formula), 1) \o Terms(negexp(call.formula), -1)

\* a thread that has just entered its call
Entered(call) ==
    [pc |-> "test", call |-> call, todo |-> Work(call),
     result |-> WithUnit(<<1, 1>>), err |-> "ok", ret |-> NoneVal]

Raised(th, e) == [th EXCEPT !.pc = "done", !.err = e, !.todo = <<>>]

\* the thread has the unit of its current term
Found(th, unit, rest, result) ==
    IF rest = <<>>
    THEN [th EXCEPT !.pc = "done", !.todo = rest, !.result = result, !.ret = result]
    ELSE [th EXCEPT !.pc = "test", !.todo = rest, !.result = result]

Step(t, th) ==
    /\ threads' = [threads EXCEPT ![t] = th]
    /\ UNCHANGED <<auto_create_units, last, before>>

\* both threads enter their calls
Spawn ==
    /\ last = Idle
    /\ \E c1 \in Lookups, c2 \in Lookups :
        /\ threads' = [t \in Threads |-> Entered(IF t = "T1" THEN c1 ELSE c2)]
        /\ last' = [op |-> "lookups", args |-> [T1 |-> c1, T2 |-> c2],
                    err |-> "ok", ret |-> NoneVal]
    /\ before' = known_units
    /\ UNCHANGED <<known_units, auto_create_units>>

\* (a variant that creates unknown units whatever the option says)
TestUnknown_AlwaysCreate(t) ==
    /\ threads[t].pc = "test"
    /\ Step(t, [threads[t] EXCEPT !.pc =
                   IF Head(threads[t].todo).name \notin DOMAIN known_units
                   THEN "taken" ELSE "lookup"])
    /\ UNCHANGED known_units

\* get_unit: if self.auto_create_units and unit_name not in self.known_units
TestUnknown(t) ==
    /\ threads[t].pc = "test"
    /\ Step(t, [threads[t] EXCEPT !.pc =
                   IF auto_create_units
                      /\ Head(threads[t].todo).name \notin DOMAIN known_units
                   THEN "taken" ELSE "lookup"])
    /\ UNCHANGED known_units

\* add_root_unit, add_unit: if unit_name in self.known_units: raise RuntimeError
TestTaken(t) ==
    /\ threads[t].pc = "taken"
    /\ Step(t, IF Head(threads[t].todo).name \in DOMAIN known_units
               THEN Raised(threads[t], DuplicateUnit)
               ELSE [threads[t] EXCEPT !.pc = "store"])
    /\ UNCHANGED known_units

\* add_unit: self.known_units[unit_name] = unit_base_value
Store(t) ==
    /\ threads[t].pc = "store"
    /\ known_units' =
          LET n == Head(threads[t].todo).name
          IN  (n :> add_root_unit(EmptyDb, n).db[n]) @@ known_units
    /\ Step(t, [threads[t] EXCEPT !.pc = "lookup"])

\* get_unit: return self.known_units[unit_name]
Fetch(t) ==
    /\ threads[t].pc = "lookup"
    /\ LET term == Head(threads[t].todo)
       IN  Step(t, IF term.name \notin DOMAIN known_units
                   THEN Raised(threads[t], UnknownUnit)
                   ELSE Found(threads[t], known_units[term.name],
                              Tail(threads[t].todo),
                              IF term.plain THEN known_units[term.name]
                              ELSE WUMul(threads[t].result,
                                         WUPow(known_units[term.name], term.exp))))
    /\ UNCHANGED known_units

TestUnknownStep == \E t \in Threads : TestUnknown(t)

TestTakenStep == \E t \in Threads : TestTaken(t)

StoreStep == \E t \in Threads : Store(t)

FetchStep == \E t \in Threads : Fetch(t)

NextThreads ==
    \/ Return
    \/ AddRootUnit
    \/ Spawn
    \/ TestUnknownStep
    \/ TestTakenStep
    \/ StoreStep
    \/ FetchStep

SpecThreads == Init /\ [][NextThreads]_vars

\* ------------------------------------------------------------------------
\* Addition and subtraction (C1)
\* ------------------------------------------------------------------------
\* b expressed in the scale of a: b.value * scale(b) / scale(a)
ConvertedTo(b, a) ==
    RMul(b.value, RDiv(ScaleValue(b.conv), ScaleValue(a.conv)))

SumOf(a, b, sub) ==
    IF sub THEN RSub(a.value, ConvertedTo(b, a)) ELSE RAdd(a.value, ConvertedTo(b, a))

AddSubContract(a, b, sub) ==
    IF a.base_units = b.base_units
    THEN /\ last.err = "ok"
         /\ last.ret.display_units = a.display_units
         /\ last.ret.base_units = a.base_units
         /\ last.ret.conv = a.conv
         /\ last.ret.value = SumOf(a, b, sub)
    ELSE last.err = UnitMismatch

\* the quantity x * known_units[n], written as the test suite writes it
Qty(x, n) == Value(x, known_units[n])

IsCall(op, a, b) == last.op = op /\ last.args = [a |-> a, b |-> b]

\* C1: a + b and a - b succeed exactly when the base units of a and b are
\* equal (a raw number counts as dimensionless, so a quantity with units plus
\* a raw number is a mismatch) and raise UnitMismatch otherwise; on success
\* the result has a's display units and scale, and its value is a.value
\* plus/minus b converted to a's scale: 3 m + 1 km = 1003 m, 1 km - 3 m is
\* 997 m (held as 0.997 km), and 3 m + 1 is a UnitMismatch.
C1_AddSub ==
    /\ last.op \in {"add", "sub"} =>
            AddSubContract(last.args.a, AsWithUnit(last.args.b), last.op = "sub")
    /\ last.op \in {"add", "sub"} /\ ~IsWithUnit(last.args.b)
            /\ last.args.a.base_units # EmptyUnitArray
        => last.err = UnitMismatch
    /\ "km" \in DOMAIN known_units =>
        /\ IsCall("add", Qty(3, "m"), Qty(1, "km"))
               => last.err = "ok" /\ last.ret = Qty(1003, "m")
        /\ IsCall("sub", Qty(1, "km"), Qty(3, "m"))
               => last.err = "ok" /\ WUEq(last.ret, Qty(997, "m"))
                  /\ last.ret.display_units = UnitArray("km")
        /\ IsCall("add", Qty(3, "m"), Number(<<1, 1>>)) => last.err = UnitMismatch

C1_Witness ==
    /\ "km" \in DOMAIN known_units
    /\ IsCall("add", Qty(3, "m"), Qty(1, "km"))
    /\ last.ret = Qty(1003, "m")

\* ------------------------------------------------------------------------
\* Unique names (C2)
\* ------------------------------------------------------------------------
AddOps ==
    {"add_unit", "add_root_unit", "add_alternate_unit_name", "add_scaled_unit",
     "add_base_unit_data", "add_derived_unit_data"}

\* the names a formula looks up ('' looks up the name '')
FormulaNames(f) == IF f = <<>> THEN {""} ELSE {f[i].name : i \in DOMAIN f}

\* the symbol and long name the prefixes of a base unit attach to
PrefixedSymbol(d) == IF d.symbol = "kg" THEN "g" ELSE d.symbol

PrefixedName(d) == IF d.symbol = "kg" THEN "gram" ELSE d.name

Skipped(d, pre) == d.symbol = "kg" /\ pre.symbol = "k"

BaseTargets(d, ps) ==
    {d.symbol, d.name}
        \cup (IF d.symbol = "kg" THEN {"g", "gram"} ELSE {})
        \cup (IF d.use_prefixes
              THEN UNION {{ps[i].symbol \o PrefixedSymbol(d), ps[i].name \o PrefixedName(d)} :
                              i \in {j \in DOMAIN ps : ~Skipped(d, ps[j])}}
              ELSE {})

DerivedTargets(d, ps) ==
    {d.symbol, d.name}
        \cup (IF d.use_prefixes
              THEN UNION {{ps[i].symbol \o d.symbol, ps[i].name \o d.name} : i \in DOMAIN ps}
              ELSE {})

\* the names call c is to register, and the first of them
Targets(c) ==
    CASE c.op \in {"add_unit", "add_root_unit", "add_scaled_unit"} -> {c.args.unit_name}
      [] c.op = "add_alternate_unit_name" -> {c.args.alternate_name}
      [] c.op = "add_base_unit_data" -> BaseTargets(c.args.data, c.args.prefixes)
      [] c.op = "add_derived_unit_data" -> DerivedTargets(c.args.data, c.args.prefixes)
      [] OTHER -> {}

Target(c) ==
    CASE c.op \in {"add_unit", "add_root_unit", "add_scaled_unit"} -> c.args.unit_name
      [] c.op = "add_alternate_unit_name" -> c.args.alternate_name
      [] OTHER -> c.args.data.symbol

\* the names call c resolves before it registers its first name
LookedUp(c) ==
    CASE c.op = "add_alternate_unit_name" -> {c.args.unit_name}
      [] c.op = "add_scaled_unit" -> FormulaNames(c.args.formula)
      [] c.op = "add_derived_unit_data" -> FormulaNames(c.args.data.formula)
      [] OTHER -> {}

IllTyped(c) == c.op = "add_unit" /\ ~IsWithUnit(c.args.unit_base_value)

\* the error of a call whose first target name is taken
TakenError(c) ==
    IF IllTyped(c) THEN "TypeError"
    ELSE IF ~auto_create_units /\ ~(LookedUp(c) \subseteq DOMAIN before) THEN UnknownUnit
    ELSE DuplicateUnit

\* C2 as claimed: every registering operation whose target name is already in
\* known_units fails with DuplicateUnit.
C2_AlwaysDuplicateUnit ==
    last.op \in AddOps /\ Target(last) \in DOMAIN before => last.err = DuplicateUnit

\* C2 (amended): a registering operation whose target name is already in
\* known_units fails: with DuplicateUnit, unless an earlier step of the call
\* raised first (TypeError for a value that is no WithUnit, UnknownUnit for a
\* name it looks up with auto-creation off); a call one of whose target names
\* is taken never succeeds; and across every operation a registered name
\* stays registered with exactly the value it had.
C2_UniqueNames ==
    /\ \A n \in DOMAIN before : n \in DOMAIN known_units /\ known_units[n] = before[n]
    /\ last.op \in AddOps /\ Target(last) \in DOMAIN before
           => last.err = TakenError(last)
    /\ last.op \in AddOps /\ Targets(last) \cap DOMAIN before # {} => last.err # "ok"

C2_Witness ==
    /\ last.op = "add_scaled_unit"
    /\ last.args.unit_name \in DOMAIN before
    /\ last.err = DuplicateUnit
    /\ known_units # before

\* ------------------------------------------------------------------------
\* Lookups without auto-creation (C3)
\* ------------------------------------------------------------------------
ItemNames(f) == {f[i].name : i \in DOMAIN f}

\* C3: with auto_create_units false, get_unit of an unregistered name and
\* parse_unit_formula of a formula that mentions an unregistered name fail
\* with UnknownUnit and leave known_units unchanged; get_unit of a registered
\* name returns the stored value and leaves the database unchanged.
C3_UnknownUnit ==
    /\ last.op = "get_unit" /\ last.args.unit_name \in DOMAIN before
           => last.err = "ok" /\ last.ret = before[last.args.unit_name]
              /\ known_units = before
    /\ ~auto_create_units /\ last.op = "get_unit"
           /\ last.args.unit_name \notin DOMAIN before
           => last.err = UnknownUnit /\ known_units = before
    /\ ~auto_create_units /\ last.op = "parse_unit_formula"
           /\ ~(ItemNames(last.args.formula) \subseteq DOMAIN before)
           => last.err = UnknownUnit /\ known_units = before

C3_Witness ==
    /\ ~auto_create_units
    /\ last.op = "parse_unit_formula"
    /\ ItemNames(last.args.formula) \cap DOMAIN before # {}
    /\ ~(ItemNames(last.args.formula) \subseteq DOMAIN before)
    /\ last.err = UnknownUnit

\* ------------------------------------------------------------------------
\* Auto-created root units (C4)
\* ------------------------------------------------------------------------
\* the root unit named n: value 1, scale one, {n:1} for both unit arrays
RootUnit(n) ==
    [cls |-> "WithUnit", value |-> <<1, 1>>,
     conv |-> [factor |-> <<1, 1>>, ratio |-> [numer |-> 1, denom |-> 1], exp10 |-> 0],
     base_units |-> (n :> <<1, 1>>), display_units |-> (n :> <<1, 1>>)]

AutoCreated ==
    /\ auto_create_units
    /\ last.op = "get_unit"
    /\ last.args.unit_name \notin DOMAIN before

\* C4: with auto_create_units true, get_unit of an unregistered name registers
\* the name as a new root unit (value 1, scale one, display_units = base_units
\* = {name:1}), leaves every other entry alone and returns the new unit; its
\* base_units differ from those of every unit registered before it (the
\* values given to add_unit being numbers and multiples of this database's
\* own units), and two root units of different names have different base_units.
C4_AutoCreate ==
    /\ AutoCreated =>
          /\ last.err = "ok"
          /\ last.ret = RootUnit(last.args.unit_name)
          /\ known_units = before @@ (last.args.unit_name :> last.ret)
          /\ \A m \in DOMAIN before : before[m].base_units # last.ret.base_units
    /\ \A n, m \in DOMAIN known_units :
          n # m /\ known_units[n] = RootUnit(n) /\ known_units[m] = RootUnit(m)
              => known_units[n].base_units # known_units[m].base_units

C4_Witness ==
    /\ AutoCreated
    /\ last.ret = RootUnit(last.args.unit_name)
    /\ \E m \in DOMAIN before : before[m] = RootUnit(m)
    /\ \E m \in DOMAIN before : before[m] # RootUnit(m)

\* ------------------------------------------------------------------------
\* Scaled units (C5)
\* ------------------------------------------------------------------------
\* what the formula of call c parses to, in the database the call started from
Parsed(c) == parse_unit_formula(before, auto_create_units, c.args.formula)

SameScale(s, factor, numer, denom, exp10) ==
    /\ s.factor = factor
    /\ Rat(s.ratio.numer, s.ratio.denom) = Rat(numer, denom)
    /\ s.exp10 = exp10

\* the unit registered under a.unit_name has value 1, the given factor, the
\* ratio and exp10 of the parsed quantity p times the arguments, p's base
\* units and its own name for display; every other entry is as parsing left it
ScaledContract(a, pdb, p, factor) ==
    /\ a.unit_name \in DOMAIN known_units
    /\ known_units[a.unit_name].value = <<1, 1>>
    /\ SameScale(known_units[a.unit_name].conv, factor,
                 a.numer * p.conv.ratio.numer, a.denom * p.conv.ratio.denom,
                 a.exp10 + p.conv.exp10)
    /\ known_units[a.unit_name].base_units = p.base_units
    /\ known_units[a.unit_name].display_units = (a.unit_name :> <<1, 1>>)
    /\ DOMAIN known_units = DOMAIN pdb \cup {a.unit_name}
    /\ \A n \in DOMAIN pdb : known_units[n] = pdb[n]
    /\ \A n \in DOMAIN before : known_units[n] = before[n]

ScaledOk == last.op = "add_scaled_unit" /\ last.err = "ok"

\* C5 as claimed: the factor of the new unit is the factor argument times the
\* factor of the parsed formula's scale.
C5_ScaleOfFormula ==
    ScaledOk => ScaledContract(last.args, Parsed(last).db, Parsed(last).ret,
                               RMul(last.args.factor, Parsed(last).ret.conv.factor))

\* C5 (amended): add_scaled_unit registers under name a unit of value 1 whose
\* scale is the parsed formula's scale times (factor, numer/denom, 10^exp10)
\* with the parsed formula's numeric value folded into the factor (factor *
\* formula.factor * formula.value), whose base_units are the parsed formula's
\* and whose display_units are {name:1}; the units named in the formula, and
\* every other entry, are left unchanged.
C5_ScaledUnit ==
    ScaledOk => ScaledContract(last.args, Parsed(last).db, Parsed(last).ret,
                               RMul(RMul(last.args.factor, Parsed(last).ret.conv.factor),
                                    Parsed(last).ret.value))

C5_Witness ==
    /\ ScaledOk
    /\ Parsed(last).ret.value # <<1, 1>>
    /\ last.args.numer # last.args.denom
    /\ last.args.exp10 # 0

\* ------------------------------------------------------------------------
\* Base units and their prefixes (C6, C7)
\* ------------------------------------------------------------------------
BaseCall == last.op = "add_base_unit_data"

Kilogram == [symbol |-> "kg", name |-> "kilogram", use_prefixes |-> TRUE]

NoRepeats(ps) == \A i, j \in DOMAIN ps : i # j => ps[i] # ps[j]

\* a fresh registration of the kilogram with distinct prefixes, k among them
KilogramCall ==
    /\ BaseCall
    /\ last.args.data = Kilogram
    /\ \E i \in DOMAIN last.args.prefixes : last.args.prefixes[i].symbol = "k"
    /\ NoRepeats(last.args.prefixes)
    /\ Targets(last) \cap DOMAIN before = {}

\* the unit of value 1, base units {kg:1} and scale 10^e, displayed as n
GramUnit(n, e) ==
    [cls |-> "WithUnit", value |-> <<1, 1>>,
     conv |-> [factor |-> <<1, 1>>, ratio |-> [numer |-> 1, denom |-> 1], exp10 |-> e],
     base_units |-> ("kg" :> <<1, 1>>), display_units |-> (n :> <<1, 1>>)]

Has(names) == names \subseteq DOMAIN known_units

\* C6: add_base_unit_data for kg/kilogram with prefixes on and a list of
\* distinct prefixes that contains k, in a database that holds none of the
\* names involved, succeeds (no DuplicateUnit); afterwards kg and kilogram are
\* the root unit kg, g and gram are kg * 10^-3 with base_units {kg:1}, the k
\* prefix has registered nothing (kg and kilogram are still the root), every
\* other prefix p has registered p.symbol+'g' and p.name+'gram' as the gram
\* scaled by 10^p.exp10, and nothing else was added or changed.
C6_Kilogram ==
    KilogramCall =>
        /\ last.err = "ok"
        /\ DOMAIN known_units = DOMAIN before \cup Targets(last)
        /\ \A n \in DOMAIN before : known_units[n] = before[n]
        /\ known_units["kg"] = RootUnit("kg")
        /\ known_units["kilogram"] = RootUnit("kg")
        /\ known_units["g"] = GramUnit("g", -3)
        /\ known_units["gram"] = GramUnit("g", -3)
        /\ WUEq(Qty(1000, "g"), Qty(1, "kg"))
        /\ \A i \in DOMAIN last.args.prefixes :
              last.args.prefixes[i].symbol # "k" =>
                  /\ known_units[last.args.prefixes[i].symbol \o "g"]
                        = GramUnit(last.args.prefixes[i].symbol \o "g",
                                   last.args.prefixes[i].exp10 - 3)
                  /\ known_units[last.args.prefixes[i].name \o "gram"]
                        = known_units[last.args.prefixes[i].symbol \o "g"]

C6_Witness ==
    /\ KilogramCall
    /\ last.err = "ok"
    /\ Len(last.args.prefixes) > 1
    /\ Has({"kg", "kilogram", "g", "gram"})
    /\ before # EmptyDb

\* the exp10 of the unit the prefixes of base unit d attach to
PrefixedExp10(d) == IF d.symbol = "kg" THEN -3 ELSE 0

Registered(n) == n \in DOMAIN known_units /\ n \notin DOMAIN before

\* the scale of the prefixed unit is exactly 10^(pre.exp10 + exp10 of the unit)
ExactPrefix(d, pre) ==
    /\ Registered(pre.symbol \o PrefixedSymbol(d)) =>
           known_units[pre.symbol \o PrefixedSymbol(d)].conv
               = [factor |-> <<1, 1>>, ratio |-> [numer |-> 1, denom |-> 1],
                  exp10 |-> pre.exp10 + PrefixedExp10(d)]
    /\ Registered(pre.name \o PrefixedName(d)) =>
           known_units[pre.name \o PrefixedName(d)]
               = known_units[pre.symbol \o PrefixedSymbol(d)]

\* C7: every prefixed unit that add_base_unit_data registers has a
\* rational-only scale (factor exactly 1, ratio 1/1) whose exp10 is the
\* prefix's exp10 plus the exp10 of the unit it prefixes (-3 for the gram), so
\* 1 kilogram == 1000 gram, 1 megagram == 1000 kilogram and
\* 10 Mg == 10000 kg == 10000000 g hold exactly.
C7_PrefixExact ==
    /\ BaseCall /\ last.args.data.use_prefixes =>
          \A i \in DOMAIN last.args.prefixes :
              ~Skipped(last.args.data, last.args.prefixes[i])
                  => ExactPrefix(last.args.data, last.args.prefixes[i])
    /\ Has({"kilogram", "gram"}) => WUEq(Qty(1, "kilogram"), Qty(1000, "gram"))
    /\ Has({"megagram", "kilogram"}) => WUEq(Qty(1, "megagram"), Qty(1000, "kilogram"))
    /\ Has({"Mg", "kg", "g"}) =>
          /\ WUEq(Qty(10, "Mg"), Qty(10000, "kg"))
          /\ WUEq(Qty(10000, "kg"), Qty(10000000, "g"))
          /\ WUEq(Qty(10, "Mg"), Qty(10000000, "g"))
          /\ known_units["Mg"].conv.factor = <<1, 1>>

C7_Witness ==
    /\ BaseCall
    /\ last.err = "ok"
    /\ Has({"Mg", "megagram", "kg", "kilogram", "g", "gram"})
    /\ Registered("Mg")
    /\ known_units["Mg"].conv.exp10 = 3

\* ------------------------------------------------------------------------
\* Derived units (C8)
\* ------------------------------------------------------------------------
DerivedOk == last.op = "add_derived_unit_data" /\ last.err = "ok"

\* the quantity d.formula parses to (p), scaled by d's factor, ratio and exp10
DerivedQuantity(d, p) ==
    [cls |-> "WithUnit", value |-> p.value,
     conv |-> [factor |-> RMul(d.value, p.conv.factor),
               ratio |-> [numer |-> d.numerator * p.conv.ratio.numer,
                          denom |-> d.denominator * p.conv.ratio.denom],
               exp10 |-> d.exp10 + p.conv.exp10],
     base_units |-> p.base_units, display_units |-> p.display_units]

\* u is unit v shifted by the prefix pre and displayed as n
ShiftedBy(u, v, pre, n) ==
    /\ u.value = v.value
    /\ u.conv.factor = v.conv.factor
    /\ u.conv.ratio = v.conv.ratio
    /\ u.conv.exp10 = v.conv.exp10 + pre.exp10
    /\ u.base_units = v.base_units
    /\ u.display_units = (n :> <<1, 1>>)

DerivedContract(d, ps, p) ==
    /\ Has(DerivedTargets(d, ps))
    /\ known_units[d.symbol].base_units = p.base_units
    /\ known_units[d.name].base_units = p.base_units
    /\ WUEq(known_units[d.symbol], DerivedQuantity(d, p))
    /\ WUEq(known_units[d.name], known_units[d.symbol])
    /\ known_units[d.symbol].display_units = (d.symbol :> <<1, 1>>)
    /\ known_units[d.name].display_units = (d.name :> <<1, 1>>)
    /\ d.use_prefixes =>
          \A i \in DOMAIN ps :
              /\ ShiftedBy(known_units[ps[i].symbol \o d.symbol], known_units[d.symbol],
                           ps[i], ps[i].symbol \o d.symbol)
              /\ known_units[ps[i].name \o d.name] = known_units[ps[i].symbol \o d.symbol]

\* C8: a successful add_derived_unit_data(d, prefixes) registers d.symbol and
\* d.name with equal magnitude and equal base_units, those of d.formula scaled
\* by d's factor, numerator/denominator and exp10; with d.use_prefixes it
\* registers for every prefix p the unit p.symbol+d.symbol with exp10 shifted
\* by p.exp10, and p.name+d.name as an alias of it; so the long name and the
\* symbol denote equal quantities: 10 hertz == 10 Hz, 1 kilohertz == 1 kHz,
\* and likewise 1 millisecond == 1 ms for the prefixed base unit.
C8_DerivedUnit ==
    /\ DerivedOk =>
          DerivedContract(last.args.data, last.args.prefixes,
                          parse_unit_formula(before, auto_create_units,
                                             last.args.data.formula).ret)
    /\ Has({"hertz", "Hz"}) => WUEq(Qty(10, "hertz"), Qty(10, "Hz"))
    /\ Has({"kilohertz", "kHz"}) =>
          /\ WUEq(Qty(1, "kilohertz"), Qty(1, "kHz"))
          /\ WUEq(Qty(1, "kHz"), Qty(1000, "hertz"))
    /\ Has({"millisecond", "ms"}) => WUEq(Qty(1, "millisecond"), Qty(1, "ms"))

C8_Witness ==
    /\ DerivedOk
    /\ last.args.data.use_prefixes
    /\ Len(last.args.prefixes) > 1
    /\ Has({"hertz", "Hz", "kilohertz", "kHz"})

\* ------------------------------------------------------------------------
\* Alternate names (C9)
\* ------------------------------------------------------------------------
AliasOk == last.op = "add_alternate_unit_name" /\ last.err = "ok"

WrittenExponent(item) ==
    Rat((IF item.neg THEN -1 ELSE 1) * (IF item.num = Absent THEN 1 ELSE item.num),
        IF item.denom = Absent THEN 1 ELSE item.denom)

Applied(result, item, unit) ==
    IF item.op = "*" THEN WUMul(result, WUPow(unit, WrittenExponent(item)))
    ELSE WUDiv(result, WUPow(unit, WrittenExponent(item)))

\* the terms evaluated left to right, '*' multiplying and '/' dividing
RECURSIVE LeftToRight(_, _, _, _)
LeftToRight(db, auto, items, result) ==
    IF items = <<>> THEN Ok(db, result)
    ELSE Then(get_unit(db, auto, Head(items).name),
              LAMBDA g : LeftToRight(g.db, auto, Tail(items),
                                     Applied(result, Head(items), g.ret)))

ZeroDenominator(f) == \E i \in DOMAIN f : f[i].denom = 0

ZeroExponent(f) == \E i \in DOMAIN f : f[i].num = 0

\* the call returned what the reference evaluation r returns
AgreesWith(r) ==
    /\ last.err = r.err
    /\ known_units = r.db
    /\ last.err = "ok" =>
          /\ last.ret.base_units = r.ret.base_units
          /\ last.ret.display_units = r.ret.display_units
          /\ Magnitude(last.ret) = Magnitude(r.ret)

ParsedTerms ==
    /\ last.op = "parse_unit_formula"
    /\ last.args.formula # <<>>
    /\ ~ZeroDenominator(last.args.formula)

\* C10: for every well-formed formula parse_unit_formula returns the terms
\* evaluated left to right, '*' multiplying and '/' dividing (each name's
\* base-unit exponent is the sum of its exponents after '*' minus the sum of
\* those after '/', the scale the matching product and quotient); the code's
\* order, all multiplied terms and then all divided ones, gives the same.
C10_LeftToRight ==
    ParsedTerms =>
        AgreesWith(LeftToRight(before, auto_create_units, last.args.formula,
                               WithUnit(<<1, 1>>)))

\* (C10 restricted to the formulas that write no exponent 0: on these the
\* two orders of evaluation agree)
C10_OrdersAgree ==
    ParsedTerms /\ ~ZeroExponent(last.args.formula) =>
        AgreesWith(LeftToRight(before, auto_create_units, last.args.formula,
                               WithUnit(<<1, 1>>)))

\* a formula with a divided term before a multiplied one, without exponent 0
C10_OrdersAgreeWitness ==
    /\ ParsedTerms /\ ~ZeroExponent(last.args.formula)
    /\ last.err = "ok"
    /\ Len(last.args.formula) = 3
    /\ last.args.formula[2].op = "/" /\ last.args.formula[3].op = "*"
    /\ last.args.formula[2].name # last.args.formula[3].name
    /\ last.ret.conv.factor # <<1, 1>>

\* ------------------------------------------------------------------------
\* The empty formula (C11)
\* ------------------------------------------------------------------------
EmptyFormulaCall == last.op = "parse_unit_formula" /\ last.args.formula = <<>>

\* C11: parse_unit_formula('') returns the dimensionless quantity WithUnit(1)
\* (value 1, scale one, empty display_units and base_units) in every database
\* state and for either setting of auto_create_units.
C11_EmptyFormula ==
    EmptyFormulaCall =>
        /\ last.err = "ok"
        /\ last.ret = [cls |-> "WithUnit", value |-> <<1, 1>>,
                       conv |-> [factor |-> <<1, 1>>,
                                 ratio |-> [numer |-> 1, denom |-> 1], exp10 |-> 0],
                       base_units |-> EmptyUnitArray, display_units |-> EmptyUnitArray]

\* ------------------------------------------------------------------------
\* Exponents with denominator 0 (C12)
\* ------------------------------------------------------------------------
ZeroDenominatorCall ==
    last.op = "parse_unit_formula" /\ ZeroDenominator(last.args.formula)

\* every name of the formula resolves: it is registered, or is auto-created
Resolvable(f) == auto_create_units \/ ItemNames(f) \subseteq DOMAIN before

\* C12: parsing a formula with a term whose exponent is a fraction with
\* denominator 0 ('m^1/0') never returns a quantity: it fails, with
\* ZeroDivisionError when the names of the formula resolve.
C12_ZeroDenominator ==
    ZeroDenominatorCall =>
        /\ last.err # "ok"
        /\ Resolvable(last.args.formula) => last.err = "ZeroDivisionError"

\* ------------------------------------------------------------------------
\* The exponent a term contributes (C17)
\* ------------------------------------------------------------------------
\* the exponent written, its sign flipped once more for a term that follows '/'
FlippedExponent(item) ==
    IF item.op = "/" THEN RNeg(WrittenExponent(item)) ELSE WrittenExponent(item)

\* the product of the terms' contributions, each the term's unit (as the
\* database db holds it) raised to the term's exponent
RECURSIVE Contributions(_, _)
Contributions(items, db) ==
    IF items = <<>> THEN WithUnit(<<1, 1>>)
    ELSE WUMul(WUPow(db[Head(items).name], FlippedExponent(Head(items))),
               Contributions(Tail(items), db))

ParsedOk == ParsedTerms /\ last.err = "ok"

\* C17: in a parsed formula every term contributes its unit raised to exactly
\* the exponent written, the sign flipped once for a leading '-' and once for
\* a preceding '/'; the exponent 1 is the default of a term that writes none,
\* so a term with the explicit exponent 0 ('m^0') contributes a dimensionless
\* factor and not the unit itself.
C17_WrittenExponent ==
    ParsedOk =>
        /\ last.ret.base_units = Contributions(last.args.formula, known_units).base_units
        /\ last.ret.display_units
               = Contributions(last.args.formula, known_units).display_units
        /\ Magnitude(last.ret) = Magnitude(Contributions(last.args.formula, known_units))
        /\ Len(last.args.formula) = 1 /\ last.args.formula[1].num = 0
               => last.ret = WithUnit(<<1, 1>>)

\* (C17 on the formulas that write no exponent 0: every written exponent is
\* the exponent contributed)
C17_NonZeroExponents ==
    ParsedOk /\ ~ZeroExponent(last.args.formula) =>
        /\ last.ret.base_units = Contributions(last.args.formula, known_units).base_units
        /\ Magnitude(last.ret) = Magnitude(Contributions(last.args.formula, known_units))

\* ------------------------------------------------------------------------
\* Equality (C13)
\* ------------------------------------------------------------------------
\* the magnitude of a quantity in its base units, as one number
InBase(a) == RMul(a.value, ScaleValue(a.conv))

EqCall == last.op = "eq"

\* C13: a == b never raises; it is True iff a and b have equal base_units and
\* equal magnitudes under a common scale, hence False whenever their
\* base_units differ (1 km != 20 s, 10 decibel != 10 mol, 1 rad != 1 sr,
\* dBm != dB*W); a raw number compares as the dimensionless quantity of its
\* value, so a dimensionless quantity equals the raw number of its magnitude.
C13_Equality ==
    /\ EqCall =>
          /\ last.err = "ok"
          /\ last.ret.cls = "bool"
          /\ last.ret.value
                 = (/\ last.args.a.base_units = AsWithUnit(last.args.b).base_units
                    /\ InBase(last.args.a) = InBase(AsWithUnit(last.args.b)))
          /\ last.args.a.base_units # AsWithUnit(last.args.b).base_units
                 => last.ret.value = FALSE
          /\ last.args.a.base_units = EmptyUnitArray /\ ~IsWithUnit(last.args.b)
                 => last.ret.value = (InBase(last.args.a) = last.args.b.value)
    /\ Has({"km", "s"}) => ~WUEq(Qty(1, "km"), Qty(20, "s"))
    /\ Has({"decibel", "mol"}) => ~WUEq(Qty(10, "decibel"), Qty(10, "mol"))
    /\ Has({"rad", "sr"}) => ~WUEq(Qty(1, "rad"), Qty(1, "sr"))
    /\ Has({"dBm", "dB", "W"}) =>
          ~WUEq(known_units["dBm"], WUMul(known_units["dB"], known_units["W"]))

\* 1 km == 1000 m: equal, with different scales and display units
C13_Witness ==
    /\ EqCall
    /\ Has({"km", "m", "sr", "dBm", "mol"})
    /\ last.args = [a |-> Qty(1, "km"), b |-> Qty(1000, "m")]
    /\ last.ret.value = TRUE

\* ------------------------------------------------------------------------
\* Hashing (C14)
\* ------------------------------------------------------------------------
HashCall == last.op = "hash"

DimensionCall == last.op = "dimension"

ReducedScale(s) ==
    /\ s.ratio.denom > 0
    /\ Gcd(s.ratio.numer, s.ratio.denom) = 1

\* C16: after any sequence of database operations (add_root_unit,
\* add_scaled_unit with any integer numer, denom and exp10, add_base_unit_data,
\* add_derived_unit_data, auto-creation) every unit stored in known_units has a
\* scale with denom > 0, gcd(numer, denom) = 1 and the sign carried in numer
C16_ScaleInvariant ==
    \A n \in DOMAIN known_units : ReducedScale(known_units[n].conv)

\* ------------------------------------------------------------------------
\* Concurrent lookups (C18)
\* ------------------------------------------------------------------------
\* the call run on its own
Serial(db, call) ==
    IF call.op = "get_unit" THEN get_unit(db, auto_create_units, call.unit_name)
    ELSE parse_unit_formula(db, auto_create_units, call.formula)

\* what the calls c1 and then c2 give when run one after the other from db
OneAfterTheOther(db, c1, c2) ==
    [first |-> Serial(db, c1), second |-> Serial(Serial(db, c1).db, c2)]

Outcome(r) == [err |-> r.err, ret |-> r.ret]

ThreadOutcome(t) == [err |-> threads[t].err, ret |-> threads[t].ret]

\* both threads have left their calls
LookupsDone ==
    /\ last.op = "lookups"
    /\ \A t \in Threads : threads[t].pc = "done"

\* the threads' results and the database are those of the serial run s, in
\* which thread a ran first
AsSerial(s, a, b) ==
    /\ ThreadOutcome(a) = Outcome(s.first)
    /\ ThreadOutcome(b) = Outcome(s.second)
    /\ known_units = s.second.db

Serializable ==
    \/ AsSerial(OneAfterTheOther(before, last.args.T1, last.args.T2), "T1", "T2")
    \/ AsSerial(OneAfterTheOther(before, last.args.T2, last.args.T1), "T2", "T1")

\* no exception that the call run on its own would not raise
RaisesOnlySerially(t) ==
    threads[t].err # "ok" =>
        \/ Serial(before, last.args[t]).err = threads[t].err
        \/ \E u \in Threads :
               Serial(Serial(before, last.args[u]).db, last.args[t]).err
                   = threads[t].err

\* C18: for every interleaving of two concurrent lookups (of the same or
\* different names, with either setting of auto_create_units) neither call
\* raises, known_units is not corrupted, and both calls return the same units
\* they would return when run one after the other
C18_Readers ==
    LookupsDone =>
        /\ \A t \in Threads : RaisesOnlySerially(t)
        /\ Serializable

\* the names a lookup resolves
LookedUpNames(call) == {Work(call)[i].name : i \in DOMAIN Work(call)}

\* the lookups only read: nothing they resolve would be auto-created
ReadOnly ==
    \/ ~auto_create_units
    \/ \A t \in Threads : LookedUpNames(last.args[t]) \subseteq DOMAIN before

\* C18 (amended): two concurrent lookups that auto-create nothing
\* (auto_create_units false, or every name they resolve registered) never
\* change known_units, and in every interleaving each call ends as it does when
\* run on its own: the same unit returned or the same exception raised
C18_ReadOnlyLookups ==
    last.op = "lookups" /\ ReadOnly =>
        /\ known_units = before
        /\ LookupsDone =>
              /\ \A t \in Threads :
                     ThreadOutcome(t) = Outcome(Serial(before, last.args[t]))
              /\ Serializable

C18_Witness ==
    /\ LookupsDone
    /\ ReadOnly
    /\ auto_create_units
    /\ last.args.T1 = GetUnitCall("kg")
    /\ last.args.T2.op = "parse_unit_formula"
    /\ "kg" \in LookedUpNames(last.args.T2)
    /\ threads["T1"].ret = before["kg"]
    /\ threads["T2"].err = "ok"

\* ------------------------------------------------------------------------
\* What a failed operation leaves behind (C19)
\* ------------------------------------------------------------------------
Failed == last.op \in AddOps /\ last.err # "ok"

\* the names registered during the call
Added == DOMAIN known_units \ DOMAIN before

\* C19 as claimed: a database operation that raises leaves known_units exactly
\* as it was before the call.
C19_FailureAtomic == Failed => known_units = before

\* C19 (amended): an operation that raises keeps every entry registered before
\* the call as it was.  add_unit and add_root_unit register nothing.
\* add_alternate_unit_name and add_scaled_unit register nothing when they fail
\* with UnknownUnit; when they fail because the new name is taken they leave
\* behind, as root units, the unregistered names they looked up with
\* auto_create_units true.  add_base_unit_data and add_derived_unit_data leave
\* behind the entries registered before the failing step: some of their own
\* symbol, long-name and prefixed names, and auto-created root units for names
\* of the formula.
C19_FailureFrame ==
    Failed =>
        /\ \A n \in DOMAIN before :
               n \in DOMAIN known_units /\ known_units[n] = before[n]
        /\ last.op \in {"add_unit", "add_root_unit"} => Added = {}
        /\ last.op \in {"add_alternate_unit_name", "add_scaled_unit"} =>
              /\ last.err \in {UnknownUnit, DuplicateUnit}
              /\ last.err = UnknownUnit => Added = {}
              /\ last.err = DuplicateUnit =>
                    /\ Added = IF auto_create_units
                               THEN LookedUp(last) \ DOMAIN before ELSE {}
                    /\ \A n \in Added : known_units[n] = RootUnit(n)
        /\ last.op \in {"add_base_unit_data", "add_derived_unit_data"} =>
              /\ Added \subseteq Targets(last) \cup LookedUp(last)
              /\ \A n \in Added \ Targets(last) :
                     auto_create_units /\ known_units[n] = RootUnit(n)

\* add_base_unit_data for the kilogram fails at the gram, which is taken, and
\* leaves kg and kilogram behind
C19_Witness ==
    /\ Failed
    /\ last.op = "add_base_unit_data"
    /\ last.args.data.symbol = "kg"
    /\ last.err = DuplicateUnit
    /\ "g" \in DOMAIN before
    /\ Added = {"kg", "kilogram"}

====
